---- MODULE Spec2Model ----
(***************************************************************************)
(* State-machine model of spimagine's VolumeRenderer                       *)
(* (src/spimagine/volume_render.py).                                       *)
(*                                                                         *)
(* The OpenCL backend (PyOCL) is external.  A device buffer is modelled by *)
(* its element count and an opaque content tag, a device image by its      *)
(* shape, its channel type and the array last written to it, a kernel      *)
(* dispatch by the record of the arguments handed to runKernel.            *)
(* Matrices are opaque tokens; inv(dot(modelView, mScale)) is the record   *)
(* of its two factors, and is kept in the dispatch record, the two matrix  *)
(* buffers holding only a content tag.  Scalars (gamma, maxVal, clip box, voxel spacing)   *)
(* are small integers, which np.float32 represents exactly.                *)
(* Host-side aliasing (copyData) is not part of the state.                 *)
(***************************************************************************)
EXTENDS Integers, Sequences, FiniteSets, TLC

VARIABLES
    isGPU,       \* self.isGPU
    dtypes,      \* self.dtypes, a sequence
    memMax,      \* self.memMax, MAX_MEM_ALLOC_SIZE of the device
    width,       \* self.width
    height,      \* self.height
    buf,         \* self.buf: [size, dtype, content]
    dtype,       \* self.dtype
    maxVal,      \* self.maxVal
    gamma,       \* self.gamma
    boxBounds,   \* self.boxBounds, six scalars
    stackUnits,  \* self.stackUnits, three scalars
    modelView,   \* self.modelView
    projection,  \* self.projection
    attrs,       \* which of dataImg, dataSlices, _data exist on the object
    dataSlices,  \* self.dataSlices: <<>> for None, else three [stop, step]
    dataImg,     \* self.dataImg: [shape, channel, written]
    _data,       \* self._data: [shape, dtype]
    invMBuf,     \* self.invMBuf: [size, dtype, content]
    invPBuf,     \* self.invPBuf: [size, dtype, content]
    call,        \* the public call that produced this state, with its arguments
    raised,      \* the exception that call ended with, "" if it returned
    ret,         \* what that call returned (render only)
    kernel,      \* the runKernel dispatch made by that call
    upload       \* the writeImage made by that call

camera == <<maxVal, gamma, boxBounds, stackUnits, modelView, projection>>
volume == <<attrs, dataSlices, dataImg, _data>>
device == <<isGPU, dtypes, memMax>>
matbufs == <<invMBuf, invPBuf>>
vars == <<isGPU, dtypes, memMax, width, height, buf, dtype, maxVal, gamma,
          boxBounds, stackUnits, modelView, projection, attrs, dataSlices,
          dataImg, _data, invMBuf, invPBuf, call, raised, ret, kernel, upload>>

(***************************************************************************)
(* Bounds and input domains.                                               *)
(***************************************************************************)
MaxSize == 2
MaxVolN == 3
MaxUnit == 2
MaxOverrides == 2

Sizes == (1..MaxSize) \X (1..MaxSize)
AllDtypes == {"float32", "uint16", "uint8", "float64"}
MemMaxValues == {4, 27}
Triples(S) == S \X S \X S
Arrays(n, dts) == [shape : Triples(1..n), dtype : dts]
GammaValues == {1, 2}
MaxValValues == {0, 1}
MatrixValues == {"identity", "rotated"}
BoxValues == {<<-1, 1, -1, 1, -1, 1>>, <<0, 1, 0, 1, 0, 1>>}
UnitValues == {<<1, 1, 1>>, <<1, 1, 2>>}

(***************************************************************************)
(* numpy helpers.                                                          *)
(***************************************************************************)
itemsize(dt) ==
    CASE dt = "float32" -> 4
      [] dt = "uint16" -> 2
      [] dt = "uint8" -> 1
      [] dt = "float64" -> 8

size(shape) == shape[1] * shape[2] * shape[3]

nbytes(a) == size(a.shape) * itemsize(a.dtype)

\* shape[::-1]
reversed(shape) == [i \in 1..Len(shape) |-> shape[Len(shape) + 1 - i]]

\* x in a Python list
InList(x, list) == \E i \in 1..Len(list) : list[i] = x

\* data.astype(dt)
astype(a, dt) == [a EXCEPT !.dtype = dt]

Min(a, b) == IF a < b THEN a ELSE b

\* number of indices slice(0, stop, step) selects on an axis of length n
SliceLen(n, sl) ==
    Cardinality({i \in 0..(Min(n, sl.stop) - 1) : i % sl.step = 0})

\* data[slices].shape
Sliced(shape, slices) == [i \in 1..3 |-> SliceLen(shape[i], slices[i])]

\* int(np.ceil(np.sqrt(1.*n/m)))
CeilSqrtRatio(n, m) ==
    CHOOSE r \in 0..n : r * r * m >= n /\ (r = 0 \/ (r - 1) * (r - 1) * m < n)

\* createBuffer(n, dtype=np.float32)
FreshBuffer(n) == [size |-> n, dtype |-> "float32", content |-> "fresh"]

NoArray == [shape |-> <<>>, dtype |-> ""]
NoImage == [shape |-> <<>>, channel |-> "", written |-> NoArray]
NoCall == [op |-> "__init__"]
NoRet == [returned |-> FALSE]
NoKernel == [dispatched |-> FALSE]
NoUpload == [written |-> FALSE]

(***************************************************************************)
(* __init__                                                                *)
(***************************************************************************)
\* VolumeRenderer(size) on a device drawn from gpus x mems
Construct(gpus, mems, sizes) ==
    /\ isGPU \in gpus
    /\ dtypes = IF isGPU THEN <<"float32", "uint16">> ELSE <<"float32">>
    /\ memMax \in mems
    /\ \E sz \in sizes :
          /\ width = sz[1]
          /\ height = sz[2]
          /\ buf = FreshBuffer(sz[2] * sz[1])
    /\ dtype = dtypes[1]
    /\ gamma = 1
    /\ maxVal = 0
    /\ boxBounds = <<-1, 1, -1, 1, -1, 1>>
    /\ stackUnits = <<1, 1, 1>>
    /\ modelView = "identity"
    /\ projection = "identity"
    /\ attrs = {}
    /\ dataSlices = <<>>
    /\ dataImg = NoImage
    /\ _data = NoArray
    /\ invMBuf = FreshBuffer(16)
    /\ invPBuf = FreshBuffer(16)
    /\ call = NoCall
    /\ raised = ""
    /\ ret = NoRet
    /\ kernel = NoKernel
    /\ upload = NoUpload

Init == Construct(BOOLEAN, MemMaxValues, Sizes)

(***************************************************************************)
(* reset_buffer, resize, set_dtype                                         *)
(***************************************************************************)
\* a reset_buffer that sizes the buffer from the width alone
reset_buffer_square(w, h) == FreshBuffer(w * w)

reset_buffer(w, h) == FreshBuffer(h * w)

Resize(sz) ==
    /\ width' = sz[1]
    /\ height' = sz[2]
    /\ buf' = reset_buffer(sz[1], sz[2])
    /\ call' = [op |-> "resize", size |-> sz]
    /\ raised' = ""
    /\ ret' = NoRet
    /\ kernel' = NoKernel
    /\ upload' = NoUpload
    /\ UNCHANGED <<device, dtype, camera, volume, matbufs>>

\* the dtype set_dtype(dt) selects; dt = "None" is the default argument
SelectedDtype(dt) == IF dt = "None" THEN dtypes[1] ELSE dt

SetDtype(dt) ==
    /\ call' = [op |-> "set_dtype", dtype |-> dt]
    /\ ret' = NoRet
    /\ kernel' = NoKernel
    /\ upload' = NoUpload
    /\ UNCHANGED <<device, width, height, camera, volume, matbufs>>
    /\ IF dt = dtype
       THEN /\ raised' = ""
            /\ UNCHANGED <<dtype, buf>>
       ELSE IF InList(SelectedDtype(dt), dtypes)
       THEN /\ dtype' = SelectedDtype(dt)
            /\ buf' = reset_buffer(width, height)
            /\ raised' = ""
       ELSE /\ raised' = "NotImplementedError"
            /\ UNCHANGED <<dtype, buf>>

(***************************************************************************)
(* set_data, set_shape, update_data                                        *)
(***************************************************************************)
\* an Nstep that truncates the square root instead of rounding it up
NstepFloor(data) ==
    CHOOSE r \in 0..nbytes(data) :
        r * r * memMax <= nbytes(data) /\ (r + 1) * (r + 1) * memMax > nbytes(data)

\* Nstep of _get_downsampled_data_slices
Nstep(data) == CeilSqrtRatio(nbytes(data), memMax)

\* _get_downsampled_data_slices: <<>> stands for None
get_downsampled_data_slices(data) ==
    IF Nstep(data) > 1
    THEN [i \in 1..3 |-> [stop |-> data.shape[i], step |-> Nstep(data)]]
    ELSE <<>>

\* set_shape: createImage with the channel type of the current dtype
set_shape(dataShape, dt) ==
    [shape |-> dataShape, channel |-> dt, written |-> NoArray]

\* the array update_data stores in self._data
StoredData(data, slices, dt) ==
    LET cut == IF slices # <<>>
               THEN [data EXCEPT !.shape = Sliced(data.shape, slices)]
               ELSE data
    IN  IF cut.dtype # dt THEN astype(cut, dt) ELSE cut

\* writeImage(img, a) is defined by the backend only when a fits img
Fits(img, a) == img.shape = reversed(a.shape) /\ img.channel = a.dtype

\* a type check that knows only the GPU's dtypes
TypeMismatchGpuOnly(data, autoConvert) ==
    ~autoConvert /\ data.dtype \notin {"float32", "uint16"}

\* line 164 of set_data
TypeMismatch(data, autoConvert) ==
    ~autoConvert /\ ~InList(data.dtype, dtypes)

\* lines 167-172 of set_data: the array handed on, after set_dtype or astype
ConvertedData(data) ==
    IF InList(data.dtype, dtypes) THEN data ELSE astype(data, dtype)

\* the object's fields after set_data(data) got past the type check
SetDataEffect(data) ==
    LET known == InList(data.dtype, dtypes)
        dt == IF known THEN data.dtype ELSE dtype
        d == ConvertedData(data)
        slices == get_downsampled_data_slices(d)
        img == IF slices # <<>>
               THEN set_shape(reversed(Sliced(d.shape, slices)), dt)
               ELSE set_shape(reversed(d.shape), dt)
        stored == StoredData(d, slices, dt)
    IN  [dtype |-> dt,
         buf |-> IF known /\ data.dtype # dtype
                 THEN reset_buffer(width, height) ELSE buf,
         attrs |-> attrs \cup {"dataSlices", "dataImg", "_data"},
         dataSlices |-> slices,
         dataImg |-> [img EXCEPT !.written = stored],
         _data |-> stored,
         upload |-> [written |-> TRUE, image |-> img, data |-> stored]]

\* the object's fields when no set_data runs
NoDataEffect ==
    [dtype |-> dtype, buf |-> buf, attrs |-> attrs, dataSlices |-> dataSlices,
     dataImg |-> dataImg, _data |-> _data, upload |-> NoUpload]

SetData(data, autoConvert) ==
    /\ call' = [op |-> "set_data", data |-> data, autoConvert |-> autoConvert]
    /\ ret' = NoRet
    /\ kernel' = NoKernel
    /\ UNCHANGED <<device, width, height, camera, matbufs>>
    /\ IF TypeMismatch(data, autoConvert)
       THEN /\ raised' = "NotImplementedError"
            /\ upload' = NoUpload
            /\ UNCHANGED <<dtype, buf, volume>>
       ELSE LET e == SetDataEffect(data)
            IN  /\ raised' = ""
                /\ dtype' = e.dtype
                /\ buf' = e.buf
                /\ attrs' = e.attrs
                /\ dataSlices' = e.dataSlices
                /\ dataImg' = e.dataImg
                /\ _data' = e._data
                /\ upload' = e.upload

UpdateData(data) ==
    /\ call' = [op |-> "update_data", data |-> data]
    /\ ret' = NoRet
    /\ kernel' = NoKernel
    /\ UNCHANGED <<device, width, height, buf, dtype, camera, matbufs,
                   dataSlices>>
    /\ IF "dataSlices" \notin attrs
       THEN /\ raised' = "AttributeError"
            /\ upload' = NoUpload
            /\ UNCHANGED <<attrs, dataImg, _data>>
       ELSE LET stored == StoredData(data, dataSlices, dtype)
            IN  /\ _data' = stored
                /\ attrs' = attrs \cup {"_data"}
                /\ upload' = [written |-> TRUE, image |-> dataImg,
                              data |-> stored]
                /\ IF Fits(dataImg, stored)
                   THEN /\ raised' = ""
                        /\ dataImg' = [dataImg EXCEPT !.written = stored]
                   ELSE \* the backend's answer to a misfit write is not
                        \* defined by this code: it may refuse or go through
                        \/ /\ raised' = "BackendError"
                           /\ UNCHANGED dataImg
                        \/ /\ raised' = ""
                           /\ dataImg' = [dataImg EXCEPT !.written = stored]

(***************************************************************************)
(* parameter setters                                                       *)
(***************************************************************************)
Setter(op, arg) ==
    /\ call' = [op |-> op, arg |-> arg]
    /\ raised' = ""
    /\ ret' = NoRet
    /\ kernel' = NoKernel
    /\ upload' = NoUpload
    /\ UNCHANGED <<device, width, height, buf, dtype, volume, matbufs>>

SetMaxVal(v) ==
    /\ maxVal' = v
    /\ Setter("set_max_val", v)
    /\ UNCHANGED <<gamma, boxBounds, stackUnits, modelView, projection>>

SetGamma(g) ==
    /\ gamma' = g
    /\ Setter("set_gamma", g)
    /\ UNCHANGED <<maxVal, boxBounds, stackUnits, modelView, projection>>

SetBoxBoundaries(b) ==
    /\ boxBounds' = b
    /\ Setter("set_box_boundaries", b)
    /\ UNCHANGED <<maxVal, gamma, stackUnits, modelView, projection>>

SetUnits(u) ==
    /\ stackUnits' = u
    /\ Setter("set_units", u)
    /\ UNCHANGED <<maxVal, gamma, boxBounds, modelView, projection>>

SetProjection(p) ==
    /\ projection' = p
    /\ Setter("set_projection", p)
    /\ UNCHANGED <<maxVal, gamma, boxBounds, stackUnits, modelView>>

SetModelView(m) ==
    /\ modelView' = m
    /\ Setter("set_modelView", m)
    /\ UNCHANGED <<maxVal, gamma, boxBounds, stackUnits, projection>>

(***************************************************************************)
(* _stack_scale_mat and render                                             *)
(***************************************************************************)
Max3(t) ==
    CHOOSE m \in {t[1], t[2], t[3]} : \A i \in 1..3 : t[i] <= m

\* a scale matrix normalised by the x extent instead of the largest one
stack_scale_mat_x(img, units) ==
    LET ext == [i \in 1..3 |-> units[i] * img.shape[i]]
    IN  [num |-> ext, den |-> ext[1]]

\* mat4_scale(dx*Nx/maxDim, dy*Ny/maxDim, dz*Nz/maxDim), kept as the three
\* numerators d*N and the common denominator maxDim
stack_scale_mat(img, units) ==
    LET ext == [i \in 1..3 |-> units[i] * img.shape[i]]
    IN  [num |-> ext, den |-> Max3(ext)]

\* an override record holds the keyword arguments that are not None
Given(ov, name) == name \in DOMAIN ov

\* the value render leaves in a field with a setter call in lines 245-258
Overridden(ov, name, stored) == IF Given(ov, name) THEN ov[name] ELSE stored

\* the clip box render hands to the kernel: boxBounds has no setter call
KernelBox(ov) == boxBounds

\* readBuffer(self.buf).reshape(self.width, self.height)
ReadBack(b) == [returned |-> TRUE, shape |-> <<width, height>>,
                content |-> b.content]

\* line 264, reached with dataImg present: `not modelView` on a 4x4 array
ModelViewTruthRaises(ov) == Given(ov, "modelView")

Render(ov) ==
    LET e == IF Given(ov, "data") THEN SetDataEffect(ov.data) ELSE NoDataEffect
        mScale == stack_scale_mat(e.dataImg, stackUnits')
        invM == [modelView |-> modelView', mScale |-> mScale]
        invP == [projection |-> projection']
    IN  /\ call' = [op |-> "render", ov |-> ov]
        /\ UNCHANGED <<device, width, height>>
        /\ dtype' = e.dtype
        /\ attrs' = e.attrs
        /\ dataSlices' = e.dataSlices
        /\ dataImg' = e.dataImg
        /\ _data' = e._data
        /\ upload' = e.upload
        /\ maxVal' = Overridden(ov, "maxVal", maxVal)
        /\ gamma' = Overridden(ov, "gamma", gamma)
        /\ stackUnits' = Overridden(ov, "stackUnits", stackUnits)
        /\ modelView' = Overridden(ov, "modelView", modelView)
        /\ projection' = Overridden(ov, "projection", projection)
        /\ UNCHANGED boxBounds
        /\ IF "dataImg" \notin e.attrs
           THEN /\ raised' = ""
                /\ ret' = ReadBack(e.buf)
                /\ buf' = e.buf
                /\ kernel' = NoKernel
                /\ UNCHANGED matbufs
           ELSE IF ModelViewTruthRaises(ov)
           THEN /\ raised' = "ValueError"
                /\ ret' = NoRet
                /\ buf' = e.buf
                /\ kernel' = NoKernel
                /\ UNCHANGED matbufs
           ELSE /\ raised' = ""
                /\ invMBuf' = [invMBuf EXCEPT !.content = "invM"]
                /\ invPBuf' = [invPBuf EXCEPT !.content = "invP"]
                /\ kernel' = [dispatched |-> TRUE,
                              grid |-> <<width, height>>,
                              width |-> width, height |-> height,
                              box |-> KernelBox(ov),
                              maxVal |-> maxVal', gamma |-> gamma',
                              invP |-> invP, invM |-> invM,
                              img |-> e.dataImg,
                              isUint16 |-> (e.dtype = "uint16")]
                /\ buf' = [e.buf EXCEPT !.content = "frame"]
                /\ ret' = ReadBack(buf')

(***************************************************************************)
(* Specifications                                                          *)
(***************************************************************************)
DtypeArgs == {"None", "float32", "uint16", "float64"}

Opt(name, values) == {<<>>} \cup {name :> v : v \in values}

SomeArrays ==
    {[shape |-> <<1, 2, 2>>, dtype |-> "uint16"],
     [shape |-> <<2, 1, 1>>, dtype |-> "float32"],
     [shape |-> <<2, 2, 2>>, dtype |-> "float64"]}

\* render's keyword arguments, at most MaxOverrides of them given
Overrides ==
    {ov \in {d @@ u @@ v @@ g @@ m @@ p @@ b :
                d \in Opt("data", {[shape |-> <<1, 2, 2>>, dtype |-> "uint16"]}),
                u \in Opt("stackUnits", {<<1, 1, 2>>}),
                v \in Opt("maxVal", {1}), g \in Opt("gamma", {2}),
                m \in Opt("modelView", {"rotated"}),
                p \in Opt("projection", {"rotated"}),
                b \in Opt("boxBounds", {<<0, 1, 0, 1, 0, 1>>})} :
        Cardinality(DOMAIN ov) <= MaxOverrides}

DataOverrides == Opt("data", SomeArrays)
AllArrays == Arrays(MaxVolN, AllDtypes)
IngestArrays == Arrays(MaxVolN, {"float32", "uint16", "float64"})
FloatArrays == Arrays(MaxVolN, {"float32"})
UnitTriples == Triples(1..MaxUnit)

\* every public operation, over the full input ranges
Next ==
    \/ \E sz \in Sizes : Resize(sz)
    \/ \E dt \in DtypeArgs : SetDtype(dt)
    \/ \E d \in AllArrays, ac \in BOOLEAN : SetData(d, ac)
    \/ \E d \in AllArrays : UpdateData(d)
    \/ \E v \in MaxValValues : SetMaxVal(v)
    \/ \E g \in GammaValues : SetGamma(g)
    \/ \E b \in BoxValues : SetBoxBoundaries(b)
    \/ \E u \in UnitTriples : SetUnits(u)
    \/ \E p \in MatrixValues : SetProjection(p)
    \/ \E m \in MatrixValues : SetModelView(m)
    \/ \E ov \in Overrides : Render(ov)

Spec == Init /\ [][Next]_vars

(***************************************************************************)
(* The product of all input ranges is far too large to enumerate, so each  *)
(* group of properties is checked on the operations it is about, with the  *)
(* constructor arguments it does not depend on held at one value.          *)
(***************************************************************************)

\* buffer and image lifecycle: construct, resize, set_dtype, set_data,
\* update_data, render
NextBuffer ==
    \/ \E sz \in Sizes : Resize(sz)
    \/ \E dt \in DtypeArgs : SetDtype(dt)
    \/ \E d \in SomeArrays, ac \in BOOLEAN : SetData(d, ac)
    \/ \E d \in SomeArrays : UpdateData(d)
    \/ \E ov \in DataOverrides : Render(ov)

SpecBuffer == Construct(BOOLEAN, {16}, Sizes) /\ [][NextBuffer]_vars

\* camera and display state: the setters and render with overrides
NextCamera ==
    \/ \E d \in SomeArrays : SetData(d, TRUE)
    \/ \E v \in MaxValValues : SetMaxVal(v)
    \/ \E g \in GammaValues : SetGamma(g)
    \/ \E b \in BoxValues : SetBoxBoundaries(b)
    \/ \E u \in UnitValues : SetUnits(u)
    \/ \E p \in MatrixValues : SetProjection(p)
    \/ \E m \in MatrixValues : SetModelView(m)
    \/ \E ov \in Overrides : Render(ov)

SpecCamera == Construct({TRUE}, {27}, {<<2, 1>>}) /\ [][NextCamera]_vars

\* downsampling: set_data over a wider range of volumes and device limits
NextIngest ==
    \/ \E dt \in DtypeArgs : SetDtype(dt)
    \/ \E d \in IngestArrays : SetData(d, TRUE)

SpecIngest == Construct(BOOLEAN, MemMaxValues, {<<2, 1>>}) /\ [][NextIngest]_vars

\* scale derivation: volumes (some above the device limit) and voxel
\* spacings, rendered with the stored state
NextScale ==
    \/ \E d \in FloatArrays : SetData(d, TRUE)
    \/ \E u \in UnitTriples : SetUnits(u)
    \/ Render(<<>>)

SpecScale == Construct({TRUE}, {27}, {<<2, 1>>}) /\ [][NextScale]_vars

(***************************************************************************)
(* Properties                                                              *)
(***************************************************************************)
CeilDiv(a, b) == (a + b - 1) \div b

CeilSqrt(k) == CHOOSE r \in 1..k : r * r >= k /\ (r - 1) * (r - 1) < k

\* the volume set_data works on: the argument, converted if it had to be
Ingested == astype(call.data, dtype)

\* the stride of the last set_data
Stride == IF dataSlices = <<>> THEN 1 ELSE dataSlices[1].step

\* byte size of a volume downsampled by stride t on all three axes
StridedBytes(a, t) ==
    itemsize(a.dtype) * CeilDiv(a.shape[1], t) * CeilDiv(a.shape[2], t)
        * CeilDiv(a.shape[3], t)

\* C1: whenever a render call dispatches the kernel, every override it was
\* given is the value stored on the object and the value the kernel
\* receives: the uploaded data, the scale built from stackUnits, maxVal,
\* gamma, the model-view and projection matrices and the six clip-box
\* scalars.
C1_RenderAppliesOverrides ==
    (call.op = "render" /\ kernel.dispatched) =>
        LET ov == call.ov
        IN  /\ Given(ov, "data") =>
                /\ upload.written
                /\ \A i \in 1..3 :
                      upload.data.shape[i] = CeilDiv(ov.data.shape[i], Stride)
                /\ kernel.img.written = upload.data
            /\ Given(ov, "stackUnits") =>
                /\ stackUnits = ov.stackUnits
                /\ kernel.invM.mScale.num =
                      [i \in 1..3 |-> ov.stackUnits[i] * kernel.img.shape[i]]
            /\ Given(ov, "maxVal") =>
                maxVal = ov.maxVal /\ kernel.maxVal = ov.maxVal
            /\ Given(ov, "gamma") =>
                gamma = ov.gamma /\ kernel.gamma = ov.gamma
            /\ Given(ov, "modelView") =>
                modelView = ov.modelView
                    /\ kernel.invM.modelView = ov.modelView
            /\ Given(ov, "projection") =>
                projection = ov.projection
                    /\ kernel.invP.projection = ov.projection
            /\ Given(ov, "boxBounds") =>
                boxBounds = ov.boxBounds /\ kernel.box = ov.boxBounds

\* C2: every array render returns has shape (height, width), on the
\* dispatch path and on the no-data path.
C2_RenderShapeHeightWidth ==
    (call.op = "render" /\ ret.returned) => ret.shape = <<height, width>>

\* C3: when the volume is larger than memMax, the uploaded volume fits in
\* memMax and no smaller stride would have made it fit.
C3_MinimalStrideFits ==
    (call.op = "set_data" /\ raised = "" /\ nbytes(Ingested) > memMax) =>
        /\ nbytes(_data) <= memMax
        /\ \A t \in 1..(Stride - 1) : StridedBytes(Ingested, t) > memMax

\* C4: set_data uses stride ceil(sqrt(bytes / memMax)).  A volume of at
\* most memMax bytes is uploaded unsliced with its own shape; a volume of
\* k * memMax bytes, k > 1, is sliced with stride ceil(sqrt(k)) and every
\* uploaded axis has length ceil(N / stride).
C4_StrideFormula ==
    (call.op = "set_data" /\ raised = "") =>
        LET b == nbytes(Ingested)
            k == b \div memMax
        IN  /\ b <= memMax =>
                /\ dataSlices = <<>>
                /\ _data.shape = call.data.shape
                /\ dataImg.shape = reversed(call.data.shape)
            /\ (b % memMax = 0 /\ k > 1) =>
                /\ dataSlices # <<>>
                /\ \A i \in 1..3 :
                      /\ dataSlices[i].step = CeilSqrt(k)
                      /\ _data.shape[i] =
                            CeilDiv(call.data.shape[i], CeilSqrt(k))
                      /\ dataImg.shape[4 - i] = _data.shape[i]

\* a converted float64 volume of k * memMax bytes whose axes the stride
\* does not divide
C4_Witness ==
    /\ call.op = "set_data"
    /\ raised = ""
    /\ call.data.dtype = "float64"
    /\ nbytes(Ingested) % memMax = 0
    /\ nbytes(Ingested) \div memMax > 1
    /\ \E i \in 1..3 : call.data.shape[i] % Stride # 0

\* C5: a render call made while no data was ever set, with no data
\* override, returns normally with the content of the output buffer,
\* dispatches nothing, leaves both matrix buffers alone and leaves
\* modelView, projection, stackUnits, boxBounds, gamma and maxVal as they
\* were before the call.
C5_EarlyRenderLeavesState ==
    [][(call'.op = "render" /\ "dataImg" \notin attrs
            /\ ~Given(call'.ov, "data")) =>
        /\ raised' = ""
        /\ ~kernel'.dispatched
        /\ UNCHANGED matbufs
        /\ ret'.returned
        /\ ret'.content = buf.content
        /\ UNCHANGED camera]_vars

\* C6: the output buffer always holds width * height float32 elements.
C6_BufferMatchesSize ==
    buf.size = width * height /\ buf.dtype = "float32"

\* a resize to a non-square size, after a volume was loaded and the dtype
\* had changed
C6_Witness ==
    /\ call.op = "resize"
    /\ call.size[1] # call.size[2]
    /\ width = call.size[1]
    /\ height = call.size[2]
    /\ dtype = "uint16"
    /\ "dataImg" \in attrs

\* C7: set_data with autoConvert off and a dtype outside the supported set
\* (float32 and uint16 on a GPU, float32 alone on a CPU) raises the
\* type-mismatch error, uploads nothing and leaves dtype, the output
\* buffer, dataSlices, the volume image and the stored volume unchanged.
C7_RejectMutatesNothing ==
    [][(call'.op = "set_data" /\ ~call'.autoConvert
            /\ call'.data.dtype \notin
                  (IF isGPU THEN {"float32", "uint16"} ELSE {"float32"})) =>
        /\ raised' = "NotImplementedError"
        /\ ~upload'.written
        /\ UNCHANGED <<dtype, buf, attrs, dataSlices, dataImg, _data>>]_vars

\* a uint16 volume refused on the CPU fallback while a volume is loaded
C7_Witness ==
    /\ call.op = "set_data"
    /\ ~call.autoConvert
    /\ call.data.dtype = "uint16"
    /\ ~isGPU
    /\ raised = "NotImplementedError"
    /\ "dataImg" \in attrs

\* C8: at every dispatch the scale matrix has coefficient
\* spacing_i * N_i / max_j(spacing_j * N_j) on axis i, with N the shape of
\* the uploaded volume taken in x, y, z order; every coefficient lies in
\* (0, 1], an axis of largest extent has coefficient 1, and a cubic volume
\* with unit spacing gets the identity.
C8_StackScaleNormalised ==
    kernel.dispatched =>
        LET sc == kernel.invM.mScale
            ext == [i \in 1..3 |-> stackUnits[i] * _data.shape[4 - i]]
        IN  /\ \A i \in 1..3 : sc.num[i] = ext[i]
            /\ \A i \in 1..3 : ext[i] <= sc.den
            /\ \E i \in 1..3 : ext[i] = sc.den
            /\ \A i \in 1..3 : 0 < sc.num[i] /\ sc.num[i] <= sc.den
            /\ (stackUnits = <<1, 1, 1>> /\ _data.shape[1] = _data.shape[2]
                    /\ _data.shape[2] = _data.shape[3]) =>
                  \A i \in 1..3 : sc.num[i] = sc.den

\* a dispatch on a downsampled, non-cubic volume with three different
\* physical extents
C8_Witness ==
    /\ kernel.dispatched
    /\ dataSlices # <<>>
    /\ _data.shape[1] # _data.shape[3]
    /\ kernel.invM.mScale.num[1] # kernel.invM.mScale.num[2]
    /\ kernel.invM.mScale.num[2] # kernel.invM.mScale.num[3]
    /\ kernel.invM.mScale.num[1] # kernel.invM.mScale.num[3]

\* C9: the volume image has the reversed shape of the stored volume, and
\* every upload writes into an image that was already allocated with the
\* reversed shape of the array being written.
C9_ImageMatchesVolume ==
    /\ "dataImg" \in attrs => dataImg.shape = reversed(_data.shape)
    /\ upload.written =>
          /\ upload.image # NoImage
          /\ upload.image.shape = reversed(upload.data.shape)

\* C10: at every dispatch the uint16 flag agrees with the channel type of
\* the volume image and with the dtype of the data last written to it.
C10_FlagMatchesImage ==
    kernel.dispatched =>
        /\ kernel.isUint16 <=> (kernel.img.channel = "uint16")
        /\ kernel.isUint16 <=> (kernel.img.written.dtype = "uint16")

====
